---- MODULE Spec2Model ----
(***************************************************************************)
(* TaskService of the weekly planner: the week collection, the todo pool,  *)
(* the drag-and-drop transfer handlers, quick add, completion toggle and   *)
(* the edit session, as a state machine with one action per handler.       *)
(***************************************************************************)
EXTENDS Integers, Sequences, FiniteSets, TLC

VARIABLES
    weekOffset,          \* signal<number>
    allWeeks,            \* signal<{[weekKey]: Week}>: function weekKey -> day -> category -> Seq(Todo)
    todoPool,            \* signal<Todo[]>
    isDraggingTask,      \* signal<boolean>
    draggedTaskInfo,     \* signal<DraggedTaskInfo>
    activeDropTarget,    \* signal<DropTarget>
    justCompletedTaskId, \* signal<number | null>
    completionTimers,    \* number of pending setTimeout callbacks started by toggleTodoCompletion
    editingTaskId,       \* signal<number | null>
    editingTaskText,     \* signal<string>
    editingTaskDuration, \* signal<number | string>
    now,                 \* the value Date.now() returns (milliseconds clock)
    saveStatus,          \* signal<SaveStatus>
    saveTimers,          \* pending setTimeout callbacks of the auto-save effect, oldest first,
                         \* each with the weeks and pool its effect run read
    localStorage,        \* what the storage service holds under the two planner keys
    alertMessage,        \* the text of the last alert() shown, "" before the first
    successSounds,       \* how many times AudioService.playSuccessSound() was called
    ops                  \* how many handlers and timer callbacks have run

vars == <<weekOffset, allWeeks, todoPool, isDraggingTask, draggedTaskInfo,
          activeDropTarget, justCompletedTaskId, completionTimers, editingTaskId,
          editingTaskText, editingTaskDuration, now, saveStatus, saveTimers, localStorage,
          alertMessage, successSounds, ops>>

----------------------------------------------------------------------------
(* Bounds of the model *)

\* a run makes at most MaxOps handler calls, timer callbacks and clock ticks
MaxOps == 4
\* the day the program runs, in days since 2024-01-01 (1039 = Thursday 2026-11-05)
Today == 1039
\* Date.now() at startup (above every id in storage and in the initial pool)
StartMillis == 20

----------------------------------------------------------------------------
(* Data model *)

\* the value of an absent (undefined) or null field
Null == -1

daysOfWeek == <<"MONDAY", "TUESDAY", "WEDNESDAY", "THURSDAY", "FRIDAY", "SATURDAY", "SUNDAY">>

Days == {daysOfWeek[i] : i \in 1..Len(daysOfWeek)}

\* CATEGORIES, in key order
CATEGORIES == <<"goal", "focus", "work", "leisure", "basics">>

Cats == {CATEGORIES[i] : i \in 1..Len(CATEGORIES)}

\* the slots the user drops on and toggles in
InputSlots == {<<"MONDAY", c>> : c \in Cats}

\* the slots the user opens the quick add form in
QuickAddSlots == {<<"MONDAY", "goal">>, <<"MONDAY", "work">>}

Todo(id, text, completed, duration, urgent, important, habit, sourceId) ==
    [id |-> id, text |-> text, completed |-> completed, duration |-> duration,
     urgent |-> urgent, important |-> important, habit |-> habit, sourceId |-> sourceId]

getInitialTodoPool ==
    << Todo(1, "Review quarterly report", FALSE, 90, TRUE, TRUE, FALSE, Null),
       Todo(2, "Brainstorm marketing campaign", FALSE, 60, FALSE, TRUE, FALSE, Null),
       Todo(3, "Schedule dentist appointment", FALSE, 15, TRUE, FALSE, FALSE, Null),
       Todo(4, "Read one chapter of a book", FALSE, 30, FALSE, FALSE, FALSE, Null),
       Todo(5, "Weekly grocery shopping", FALSE, 75, FALSE, FALSE, TRUE, 5),
       Todo(6, "Vacuum the house", FALSE, 20, FALSE, FALSE, TRUE, 6),
       Todo(7, "Pay monthly bills", FALSE, 30, FALSE, FALSE, TRUE, 7),
       Todo(8, "Take out the trash", FALSE, 5, FALSE, FALSE, TRUE, 8),
       Todo(9, "Meal prep for the week", FALSE, 120, FALSE, FALSE, TRUE, 9) >>

initializeDay == [c \in Cats |-> << >>]

initializeWeek == [d \in Days |-> initializeDay]

----------------------------------------------------------------------------
(* Sequence helpers (Array.prototype.filter / find / some) *)

RemoveId(s, id) == SelectSeq(s, LAMBDA t : t.id # id)

HasId(s, id) == \E i \in 1..Len(s) : s[i].id = id

Range(s) == {s[i] : i \in 1..Len(s)}

----------------------------------------------------------------------------
(* Week key calculator *)

IsLeap(y) == (y % 4 = 0 /\ y % 100 # 0) \/ y % 400 = 0

DaysInYear(y) == IF IsLeap(y) THEN 366 ELSE 365

RECURSIVE YearStart(_)
\* day number of January 1 of year y (2024-01-01 is day 0)
YearStart(y) == IF y <= 2024 THEN 0 ELSE YearStart(y - 1) + DaysInYear(y - 1)

RECURSIVE YearFrom(_, _)
YearFrom(y, d) == IF d < YearStart(y + 1) THEN y ELSE YearFrom(y + 1, d)

\* Date.getFullYear
getFullYear(d) == YearFrom(2024, d)

\* Date.getDay: 0 = Sunday (2024-01-01 is a Monday)
getDay(d) == (d + 1) % 7

getMondayOfWeek(offset) ==
    LET today == Today + offset * 7
        day == getDay(today)
    IN  today - day + (IF day = 0 THEN -6 ELSE 1)

\* Math.ceil(a / b) for a >= 0, b > 0
CeilDiv(a, b) == (a + b - 1) \div b

WeekKeyOf(offset) ==
    LET monday == getMondayOfWeek(offset)
        year == getFullYear(monday)
        firstDayOfYear == YearStart(year)
        pastDaysOfYear == monday - firstDayOfYear
        weekNumber == CeilDiv(pastDaysOfYear + getDay(firstDayOfYear) + 1, 7)
    IN  <<year, weekNumber>>

currentWeekKey == WeekKeyOf(weekOffset)

\* week = computed(() => allWeeks()[key] || initializeWeek())
week == IF currentWeekKey \in DOMAIN allWeeks THEN allWeeks[currentWeekKey] ELSE initializeWeek

\* {...weeks, [key]: w}
WithWeek(weeks, key, w) == [k \in DOMAIN weeks \cup {key} |-> IF k = key THEN w ELSE weeks[k]]

\* weeks with one slot replaced (the deep copy newWeeks with newWeeks[k][d][c] = s)
WithSlot(weeks, k, d, c, s) == [weeks EXCEPT ![k][d][c] = s]

----------------------------------------------------------------------------
(* Derived views *)

\* backlogPool: pool.filter(t => !t.habit).sort((a, b) => b.id - a.id)
RECURSIVE SortByIdDesc(_)
SortByIdDesc(s) ==
    IF Len(s) <= 1 THEN s
    ELSE LET m == CHOOSE i \in 1..Len(s) :
                     /\ \A j \in 1..Len(s) : s[j].id <= s[i].id
                     /\ \A j \in 1..(i - 1) : s[j].id < s[i].id
             rest == [j \in 1..(Len(s) - 1) |-> IF j < m THEN s[j] ELSE s[j + 1]]
         IN  <<s[m]>> \o SortByIdDesc(rest)

backlogPool == SortByIdDesc(SelectSeq(todoPool, LAMBDA t : ~t.habit))

\* every day/category pair
AllSlots == Days \X Cats

\* the slots of week w that hold a task
UsedSlots(w) ==
    {s \in AllSlots : s[1] \in DOMAIN w /\ s[2] \in DOMAIN w[s[1]] /\ w[s[1]][s[2]] # << >>}

\* Object.values(week).flatMap(day => Object.values(day).flat())
allTasksInWeek == LET w == week IN UNION {Range(w[s[1]][s[2]]) : s \in UsedSlots(w)}

\* a view that hides a template when any week holds an instance of it
basicsPoolAnyWeek ==
    LET placed == UNION {UNION {Range(allWeeks[k][sl[1]][sl[2]]) : sl \in UsedSlots(allWeeks[k])} :
                            k \in DOMAIN allWeeks}
    IN  SelectSeq(todoPool, LAMBDA t : t.habit /\ t.id \notin {u.sourceId : u \in placed})

basicsPool ==
    LET scheduledChoreSourceIds == {t.sourceId : t \in {u \in allTasksInWeek : u.sourceId # Null}}
    IN  SelectSeq(todoPool, LAMBDA t : t.habit /\ t.id \notin scheduledChoreSourceIds)

-----------------------------------------------------------------------------
(* Daily load *)

\* private readonly dailyCapacity = 480
dailyCapacity == 480

\* the number num/den (den > 0): the quotients the load computes are kept exact
Frac(num, den) == [num |-> num, den |-> den]

\* p >= k for a number p and an integer k
AtLeast(p, k) == p.num >= k * p.den

\* Math.min(p, k)
MathMin(p, k) == IF AtLeast(p, k) THEN Frac(k, 1) ELSE p

\* tiers that start above the thresholds instead of at them
getLoadColorAbove(percentage) ==
    IF ~AtLeast(percentage, 95) \/ percentage.num = 95 * percentage.den
    THEN IF ~AtLeast(percentage, 75) \/ percentage.num = 75 * percentage.den
         THEN IF ~AtLeast(percentage, 50) \/ percentage.num = 50 * percentage.den
              THEN "#22c55e"
              ELSE "#eab308"
         ELSE "#f97316"
    ELSE "#ef4444"

getLoadColor(percentage) ==
    IF AtLeast(percentage, 95) THEN "#ef4444"
    ELSE IF AtLeast(percentage, 75) THEN "#f97316"
    ELSE IF AtLeast(percentage, 50) THEN "#eab308"
    ELSE "#22c55e"

\* tasks.reduce((sum, task) => sum + (task.duration || 0), 0)
RECURSIVE SumDurations(_)
SumDurations(tasks) ==
    IF tasks = << >> THEN 0 ELSE Head(tasks).duration + SumDurations(Tail(tasks))

\* the reduce over Object.values(dayTasks).flat(): the categories one after the other
RECURSIVE TotalMinutes(_, _)
TotalMinutes(dayTasks, categories) ==
    IF categories = {} THEN 0
    ELSE LET c == CHOOSE c \in categories : TRUE
         IN  SumDurations(dayTasks[c]) + TotalMinutes(dayTasks, categories \ {c})

dailyLoad ==
    LET weekData == week
    IN  [day \in Days |->
            LET totalMinutes == IF day \in DOMAIN weekData
                                THEN TotalMinutes(weekData[day], DOMAIN weekData[day])
                                ELSE 0
                percentage == IF dailyCapacity > 0
                              THEN MathMin(Frac(totalMinutes * 100, dailyCapacity), 100)
                              ELSE Frac(0, 1)
            IN  [total |-> totalMinutes, percentage |-> percentage,
                 color |-> getLoadColor(percentage)]]

-----------------------------------------------------------------------------
(* JavaScript values entered in forms: number | string *)

Num(n) == [kind |-> "number", val |-> n]

Str(x) == [kind |-> "string", val |-> x]

\* the value NaN
NaN == [nan |-> TRUE, val |-> 0]

\* Number(v): a number is itself; a string is parsed ("" is 0, a non-numeric string is NaN)
Number(v) ==
    IF v.kind = "number" THEN [nan |-> FALSE, val |-> v.val]
    ELSE CASE v.val = "" -> [nan |-> FALSE, val |-> 0]
           [] v.val = "45" -> [nan |-> FALSE, val |-> 45]
           [] v.val = "-5" -> [nan |-> FALSE, val |-> -5]
           [] OTHER -> NaN

\* Number(v) || dflt: NaN and 0 are falsy
NumberOr(v, dflt) == LET n == Number(v) IN IF n.nan \/ n.val = 0 THEN dflt ELSE n.val

\* String.prototype.trim on the texts the forms submit
Trim(x) == IF x = " call mum " THEN "call mum" ELSE x

\* what the user types in the add forms (the components reject a blank text)
AddTexts == {" call mum "}

\* the sidebar's taskDuration signal: number | string
AddDurations == {Str("abc")}

\* the duration the quick add form of a day column passes
QuickAddDuration == 30

\* what the user types in the edit form
EditTexts == {"edited"}

EditDurations == {Str("45"), Str("-5"), Str("abc")}

----------------------------------------------------------------------------
(* Drag sources and drop targets *)

NoDrag == [source |-> "null"]

PoolDrag(todo) == [source |-> "pool", todo |-> todo]

WeekDrag(day, category, todo, weekKey) ==
    [source |-> "week", day |-> day, category |-> category, todo |-> todo, weekKey |-> weekKey]

NoTarget == [type |-> "null"]

PoolTarget == [type |-> "pool"]

DayTarget(day, category) == [type |-> "day", day |-> day, category |-> category]

\* the targets the pointer enters while dragging
HoverTargets == {PoolTarget, DayTarget("MONDAY", "goal")}

\* the entry on top of a pool view
Top(view) == IF view = << >> THEN {} ELSE {view[1]}

\* the sidebar tasks the user drags and edits: the top of the backlog and of the habits
SidebarTasks == Top(backlogPool) \cup Top(basicsPool)

----------------------------------------------------------------------------
(* Handlers *)

\* every step of a run counts against MaxOps
Count == ops < MaxOps /\ ops' = ops + 1

\* a storage key without a value, and with one
Absent == [has |-> FALSE]

Stored(v) == [has |-> TRUE, val |-> v]

\* an effect that never clears the timer of its previous run
CleanupNothing(timers) == timers

\* onCleanup of the auto-save effect: clearTimeout of the timer the previous run started,
\* the newest one pending
Cleanup(timers) == IF timers = << >> THEN << >> ELSE SubSeq(timers, 1, Len(timers) - 1)

\* an effect run between the two writes of a handler: it reads the new weeks and the old pool
EffectBetweenWrites(notified) ==
    IF notified
    THEN /\ saveStatus' = "Saving..."
         /\ saveTimers' = Append(Cleanup(saveTimers), [weeks |-> allWeeks', pool |-> todoPool])
         /\ UNCHANGED localStorage
    ELSE UNCHANGED <<saveStatus, saveTimers, localStorage>>

\* an effect that restarts the timer and leaves the status as it is
EffectKeepsStatus(notified) ==
    IF notified
    THEN /\ saveTimers' = Append(Cleanup(saveTimers), [weeks |-> allWeeks', pool |-> todoPool'])
         /\ UNCHANGED <<saveStatus, localStorage>>
    ELSE UNCHANGED <<saveStatus, saveTimers, localStorage>>

\* the auto-save effect, run after a handler when allWeeks or todoPool was set (notified):
\* the previous run is cleaned up, the status becomes 'Saving...' and a timer is started
\* that holds the weeks and the pool the run read
Effect(notified) ==
    IF notified
    THEN /\ saveStatus' = "Saving..."
         /\ saveTimers' = Append(Cleanup(saveTimers), [weeks |-> allWeeks', pool |-> todoPool'])
         /\ UNCHANGED localStorage
    ELSE UNCHANGED <<saveStatus, saveTimers, localStorage>>

\* the callback of the auto-save timer: both structures are written, then the status is set
saveTimeout ==
    /\ \E i \in 1..Len(saveTimers) :
          /\ localStorage' = [allWeeks |-> Stored(saveTimers[i].weeks),
                              todoPool |-> Stored(saveTimers[i].pool)]
          /\ saveTimers' = [j \in 1..(Len(saveTimers) - 1) |->
                               IF j < i THEN saveTimers[j] ELSE saveTimers[j + 1]]
    /\ saveStatus' = "All changes saved"
    /\ UNCHANGED <<weekOffset, allWeeks, todoPool, isDraggingTask, draggedTaskInfo,
                   activeDropTarget, justCompletedTaskId, completionTimers, editingTaskId,
                   editingTaskText, editingTaskDuration, now, alertMessage, successSounds>>

\* time passes: Date.now() has millisecond resolution, so two handlers may read the same value
Tick ==
    /\ Count
    /\ now' = now + 1
    /\ UNCHANGED <<weekOffset, allWeeks, todoPool, isDraggingTask, draggedTaskInfo,
                   activeDropTarget, justCompletedTaskId, completionTimers, editingTaskId,
                   editingTaskText, editingTaskDuration>>
    /\ UNCHANGED <<alertMessage, successSounds>>
    /\ Effect(FALSE)

navigateWeek(direction) ==
    /\ Count
    /\ weekOffset' = weekOffset + direction
    /\ LET newWeekKey == WeekKeyOf(weekOffset + direction)
       IN  allWeeks' = IF newWeekKey \notin DOMAIN allWeeks
                       THEN WithWeek(allWeeks, newWeekKey, initializeWeek)
                       ELSE allWeeks
    /\ UNCHANGED <<todoPool, isDraggingTask, draggedTaskInfo, activeDropTarget,
                   justCompletedTaskId, completionTimers, editingTaskId, editingTaskText,
                   editingTaskDuration, now>>
    /\ UNCHANGED <<alertMessage, successSounds>>
    /\ Effect(WeekKeyOf(weekOffset + direction) \notin DOMAIN allWeeks)

addTodo(text, duration) ==
    LET newTodo == Todo(now, Trim(text), FALSE, NumberOr(duration, 30), FALSE, TRUE, FALSE, Null)
    IN  /\ Count
        /\ todoPool' = <<newTodo>> \o todoPool
        /\ UNCHANGED <<weekOffset, allWeeks, isDraggingTask, draggedTaskInfo, activeDropTarget,
                       justCompletedTaskId, completionTimers, editingTaskId, editingTaskText,
                       editingTaskDuration, now>>
        /\ UNCHANGED <<alertMessage, successSounds>>
        /\ Effect(TRUE)

addTodoToDay(day, category, text, duration) ==
    LET newTodo == Todo(now, Trim(text), FALSE, duration,
                        category = "goal" \/ category = "work",
                        category = "goal" \/ category = "focus", FALSE, Null)
        weekKey == currentWeekKey
        newWeeks == IF weekKey \in DOMAIN allWeeks THEN allWeeks
                    ELSE WithWeek(allWeeks, weekKey, initializeWeek)
    IN  /\ Count
        /\ allWeeks' = WithSlot(newWeeks, weekKey, day, category,
                                Append(newWeeks[weekKey][day][category], newTodo))
        /\ UNCHANGED <<weekOffset, todoPool, isDraggingTask, draggedTaskInfo, activeDropTarget,
                       justCompletedTaskId, completionTimers, editingTaskId, editingTaskText,
                       editingTaskDuration, now>>
        /\ UNCHANGED <<alertMessage, successSounds>>
        /\ Effect(TRUE)

\* Array.prototype.find(t => t.id === id): the index of the first match, 0 when none
FindIndex(s, id) ==
    IF HasId(s, id) THEN CHOOSE i \in 1..Len(s) : s[i].id = id /\ \A j \in 1..(i - 1) : s[j].id # id
    ELSE 0

\* a toggle that counts every flip as a completion
WasCompletedAlways(slot, i) == i # 0

\* wasCompleted after the update: a task was found and it was not completed before
WasCompleted(slot, i) == i # 0 /\ ~slot[i].completed

toggleTodoCompletion(day, category, todoId) ==
    LET weekKey == currentWeekKey
        slot == IF weekKey \in DOMAIN allWeeks THEN allWeeks[weekKey][day][category] ELSE << >>
        i == FindIndex(slot, todoId)
        wasCompleted == WasCompleted(slot, i)
    IN  /\ Count
        /\ allWeeks' = IF i # 0
                       THEN WithSlot(allWeeks, weekKey, day, category,
                                     [slot EXCEPT ![i].completed = ~slot[i].completed])
                       ELSE allWeeks
        /\ justCompletedTaskId' = IF wasCompleted THEN todoId ELSE justCompletedTaskId
        /\ completionTimers' = IF wasCompleted THEN completionTimers + 1 ELSE completionTimers
        /\ successSounds' = IF wasCompleted THEN successSounds + 1 ELSE successSounds
        /\ UNCHANGED <<weekOffset, todoPool, isDraggingTask, draggedTaskInfo, activeDropTarget,
                       editingTaskId, editingTaskText, editingTaskDuration, now>>
        /\ UNCHANGED alertMessage
        /\ Effect(TRUE)

\* the callback of setTimeout(() => justCompletedTaskId.set(null), 1000)
completionTimeout ==
    /\ Count
    /\ completionTimers > 0
    /\ completionTimers' = completionTimers - 1
    /\ justCompletedTaskId' = Null
    /\ UNCHANGED <<weekOffset, allWeeks, todoPool, isDraggingTask, draggedTaskInfo,
                   activeDropTarget, editingTaskId, editingTaskText, editingTaskDuration, now>>
    /\ UNCHANGED <<alertMessage, successSounds>>
    /\ Effect(FALSE)

startEdit(todo) ==
    /\ Count
    /\ editingTaskId' = todo.id
    /\ editingTaskText' = todo.text
    /\ editingTaskDuration' = Num(todo.duration)
    /\ UNCHANGED <<weekOffset, allWeeks, todoPool, isDraggingTask, draggedTaskInfo,
                   activeDropTarget, justCompletedTaskId, completionTimers, now>>
    /\ UNCHANGED <<alertMessage, successSounds>>
    /\ Effect(FALSE)

\* the edit form writes the two draft signals
editInput(text, duration) ==
    /\ Count
    /\ editingTaskId # Null
    /\ editingTaskText' = text
    /\ editingTaskDuration' = duration
    /\ UNCHANGED <<weekOffset, allWeeks, todoPool, isDraggingTask, draggedTaskInfo,
                   activeDropTarget, justCompletedTaskId, completionTimers, editingTaskId, now>>
    /\ UNCHANGED <<alertMessage, successSounds>>
    /\ Effect(FALSE)

cancelEdit ==
    /\ Count
    /\ editingTaskId' = Null
    /\ UNCHANGED <<weekOffset, allWeeks, todoPool, isDraggingTask, draggedTaskInfo,
                   activeDropTarget, justCompletedTaskId, completionTimers, editingTaskText,
                   editingTaskDuration, now>>
    /\ UNCHANGED <<alertMessage, successSounds>>
    /\ Effect(FALSE)

\* the slots of a week in the order saveEdit visits them: days in daysOfWeek order,
\* categories in key order
SlotOrder == [n \in 1..(Len(daysOfWeek) * Len(CATEGORIES)) |->
                 <<daysOfWeek[((n - 1) \div Len(CATEGORIES)) + 1],
                   CATEGORIES[((n - 1) % Len(CATEGORIES)) + 1]>>]

\* a search of the week that finds nothing
FirstSlotWithIdNever(w, id) == 0

\* the first slot of week w holding a task with this id, 0 when none
FirstSlotWithId(w, id) ==
    LET hits == {n \in DOMAIN SlotOrder :
                    /\ SlotOrder[n][1] \in DOMAIN w
                    /\ SlotOrder[n][2] \in DOMAIN w[SlotOrder[n][1]]
                    /\ HasId(w[SlotOrder[n][1]][SlotOrder[n][2]], id)}
    IN  IF hits = {} THEN 0 ELSE CHOOSE n \in hits : \A m \in hits : n <= m

saveEdit ==
    LET id == editingTaskId
        newText == editingTaskText
        newDuration == NumberOr(editingTaskDuration, 0)
        weekKey == currentWeekKey
        n == IF weekKey \in DOMAIN allWeeks THEN FirstSlotWithId(allWeeks[weekKey], id) ELSE 0
        foundInWeek == n # 0
    IN  /\ Count
        /\ IF id = Null
           THEN UNCHANGED <<allWeeks, todoPool, editingTaskId>>
           ELSE /\ allWeeks' =
                     IF foundInWeek
                     THEN LET d == SlotOrder[n][1]
                              c == SlotOrder[n][2]
                              slot == allWeeks[weekKey][d][c]
                              i == FindIndex(slot, id)
                          IN  WithSlot(allWeeks, weekKey, d, c,
                                       [slot EXCEPT ![i].text = newText, ![i].duration = newDuration])
                     ELSE allWeeks
                /\ todoPool' =
                     IF foundInWeek THEN todoPool
                     ELSE [j \in 1..Len(todoPool) |->
                             IF todoPool[j].id = id
                             THEN [todoPool[j] EXCEPT !.text = newText, !.duration = newDuration]
                             ELSE todoPool[j]]
                /\ editingTaskId' = Null
        /\ UNCHANGED <<weekOffset, isDraggingTask, draggedTaskInfo, activeDropTarget,
                       justCompletedTaskId, completionTimers, editingTaskText,
                       editingTaskDuration, now>>
        /\ UNCHANGED <<alertMessage, successSounds>>
        /\ Effect(editingTaskId # Null)

onDragStart(info) ==
    /\ Count
    /\ draggedTaskInfo' = info
    /\ isDraggingTask' = TRUE
    /\ UNCHANGED <<weekOffset, allWeeks, todoPool, activeDropTarget, justCompletedTaskId,
                   completionTimers, editingTaskId, editingTaskText, editingTaskDuration, now>>
    /\ UNCHANGED <<alertMessage, successSounds>>
    /\ Effect(FALSE)

onDragEnter(target) ==
    /\ Count
    /\ activeDropTarget' = target
    /\ UNCHANGED <<weekOffset, allWeeks, todoPool, isDraggingTask, draggedTaskInfo,
                   justCompletedTaskId, completionTimers, editingTaskId, editingTaskText,
                   editingTaskDuration, now>>
    /\ UNCHANGED <<alertMessage, successSounds>>
    /\ Effect(FALSE)

cleanupDragState ==
    /\ Count
    /\ isDraggingTask' = FALSE
    /\ draggedTaskInfo' = NoDrag
    /\ activeDropTarget' = NoTarget
    /\ UNCHANGED <<weekOffset, allWeeks, todoPool, justCompletedTaskId, completionTimers,
                   editingTaskId, editingTaskText, editingTaskDuration, now>>
    /\ UNCHANGED <<alertMessage, successSounds>>
    /\ Effect(FALSE)

\* a switch that falls through from work to leisure
CategoryFlagsFallThrough(category) ==
    CASE category = "goal" -> [urgent |-> TRUE, important |-> TRUE]
      [] category = "focus" -> [urgent |-> FALSE, important |-> TRUE]
      [] OTHER -> [urgent |-> FALSE, important |-> FALSE]

\* the switch of onDrop: the flags a pool task takes in a category
CategoryFlags(category) ==
    CASE category = "goal" -> [urgent |-> TRUE, important |-> TRUE]
      [] category = "focus" -> [urgent |-> FALSE, important |-> TRUE]
      [] category = "work" -> [urgent |-> TRUE, important |-> FALSE]
      [] OTHER -> [urgent |-> FALSE, important |-> FALSE]

\* todoToDrop: the dragged task with completed false and, from the pool, the category's flags
TodoToDrop(data, category) ==
    LET copy == [data.todo EXCEPT !.completed = FALSE]
    IN  IF data.source = "pool"
        THEN [copy EXCEPT !.urgent = CategoryFlags(category).urgent,
                          !.important = CategoryFlags(category).important]
        ELSE copy

\* the validation of onDrop: the goal slot is occupied and the drag does not come from it
GoalRejected(data, day, category) ==
    /\ category = "goal"
    /\ LET goalIsOccupied == Len(week[day]["goal"]) > 0
           isMovingFromSameGoalSlot ==
               data.source = "week" /\ data.day = day /\ data.category = "goal"
       IN  goalIsOccupied /\ ~isMovingFromSameGoalSlot

\* a drop that treats a habit template like any other pool task
IsHabitInstantiationNever(data, todoToDrop) == FALSE

\* the special case of onDrop: a habit template dragged from the pool
IsHabitInstantiation(data, todoToDrop) == todoToDrop.habit /\ data.source = "pool"

\* the instance onDrop makes of a habit template
NewInstance(todoToDrop, millis) == [todoToDrop EXCEPT !.id = millis, !.sourceId = todoToDrop.id]

\* the week collection after the main update of onDrop
WeeksAfterDrop(weeks, data, todoToDrop, targetWeekKey, day, category) ==
    LET removed == IF data.source = "week"
                   THEN WithSlot(weeks, data.weekKey, data.day, data.category,
                                 RemoveId(weeks[data.weekKey][data.day][data.category], todoToDrop.id))
                   ELSE weeks
    IN  WithSlot(removed, targetWeekKey, day, category,
                 Append(removed[targetWeekKey][day][category], todoToDrop))

onDrop(day, category) ==
    LET data == draggedTaskInfo
        todoToDrop == TodoToDrop(data, category)
        targetWeekKey == currentWeekKey
    IN  /\ Count
        /\ IF data = NoDrag
           THEN UNCHANGED <<allWeeks, todoPool>>
           ELSE IF GoalRejected(data, day, category)
           THEN UNCHANGED <<allWeeks, todoPool>>
           ELSE IF targetWeekKey \notin DOMAIN allWeeks
                   \/ (data.source = "week" /\ data.weekKey \notin DOMAIN allWeeks)
           THEN UNCHANGED <<allWeeks, todoPool>>  \* TypeError inside update: nothing is set
           ELSE IF IsHabitInstantiation(data, todoToDrop)
           THEN /\ allWeeks' = WithSlot(allWeeks, targetWeekKey, day, category,
                                        Append(allWeeks[targetWeekKey][day][category],
                                               NewInstance(todoToDrop, now)))
                /\ UNCHANGED todoPool
           ELSE /\ allWeeks' = WeeksAfterDrop(allWeeks, data, todoToDrop, targetWeekKey, day, category)
                /\ todoPool' = IF data.source = "pool" THEN RemoveId(todoPool, todoToDrop.id)
                               ELSE todoPool
        /\ UNCHANGED <<weekOffset, isDraggingTask, draggedTaskInfo, activeDropTarget,
                       justCompletedTaskId, completionTimers, editingTaskId, editingTaskText,
                       editingTaskDuration, now>>
        /\ UNCHANGED <<alertMessage, successSounds>>
        /\ Effect(/\ data # NoDrag
                  /\ ~GoalRejected(data, day, category)
                  /\ targetWeekKey \in DOMAIN allWeeks
                  /\ data.source = "week" => data.weekKey \in DOMAIN allWeeks)

\* a pool drop that returns every week task, habit instances included
PoolAfterPoolDropAlways(pool, todo) ==
    <<[todo EXCEPT !.urgent = FALSE, !.important = TRUE]>> \o pool

\* the pool after onPoolDrop of a week task: only a task without sourceId returns, reset
PoolAfterPoolDrop(pool, todo) ==
    IF todo.sourceId = Null
    THEN <<[todo EXCEPT !.urgent = FALSE, !.important = TRUE]>> \o pool
    ELSE pool

onPoolDrop ==
    LET data == draggedTaskInfo
    IN  /\ Count
        /\ IF data = NoDrag \/ data.source # "week"
           THEN UNCHANGED <<allWeeks, todoPool>>
           ELSE /\ allWeeks' =
                     IF data.weekKey \in DOMAIN allWeeks
                     THEN WithSlot(allWeeks, data.weekKey, data.day, data.category,
                                   RemoveId(allWeeks[data.weekKey][data.day][data.category],
                                            data.todo.id))
                     ELSE allWeeks
                /\ todoPool' = PoolAfterPoolDrop(todoPool, data.todo)
        /\ UNCHANGED <<weekOffset, isDraggingTask, draggedTaskInfo, activeDropTarget,
                       justCompletedTaskId, completionTimers, editingTaskId, editingTaskText,
                       editingTaskDuration, now>>
        /\ UNCHANGED <<alertMessage, successSounds>>
        /\ Effect(data # NoDrag /\ data.source = "week")

----------------------------------------------------------------------------
(* Backup: export and import of a JSON document *)

\* JSON.stringify of a task: a property that is undefined is left out
EncodeTodo(t) == IF t.sourceId = Null THEN [k \in DOMAIN t \ {"sourceId"} |-> t[k]] ELSE t

\* a task read from a parsed document: a property that is absent reads as undefined
DecodeTodo(o) ==
    IF "sourceId" \in DOMAIN o THEN o
    ELSE [k \in DOMAIN o \cup {"sourceId"} |-> IF k = "sourceId" THEN Null ELSE o[k]]

EncodePool(pool) == [i \in DOMAIN pool |-> EncodeTodo(pool[i])]

DecodePool(pool) == [i \in DOMAIN pool |-> DecodeTodo(pool[i])]

EncodeWeeks(weeks) ==
    [k \in DOMAIN weeks |->
        [d \in DOMAIN weeks[k] |->
            [c \in DOMAIN weeks[k][d] |-> EncodePool(weeks[k][d][c])]]]

DecodeWeeks(weeks) ==
    [k \in DOMAIN weeks |->
        [d \in DOMAIN weeks[k] |->
            [c \in DOMAIN weeks[k][d] |-> DecodePool(weeks[k][d][c])]]]

\* a file whose text JSON.parse rejects, one it parses to an object, and the text "null"
Unparsable == [parses |-> FALSE, null |-> FALSE]

Json(value) == [parses |-> TRUE, null |-> FALSE, value |-> value]

NullBackup == [parses |-> TRUE, null |-> TRUE]

\* a property of a parsed object: absent (undefined) or present with its value
Undefined == [defined |-> FALSE]

Defined(value) == [defined |-> TRUE, value |-> value]

\* a truthiness that takes an empty array or object for false
TruthyNonEmpty(property) == property.defined /\ DOMAIN property.value # {}

\* JavaScript truthiness of a property holding an object or an array: undefined is falsy,
\* every object and array is truthy, the empty ones too
Truthy(property) == property.defined

\* data.key
Property(data, key) == IF key \in DOMAIN data THEN Defined(data[key]) ELSE Undefined

\* the document exportData writes: JSON.stringify({allWeeks, todoPool})
exportData == Json([allWeeks |-> EncodeWeeks(allWeeks), todoPool |-> EncodePool(todoPool)])

\* a backup taken right after a first start with empty storage
FreshBackup ==
    Json([allWeeks |-> EncodeWeeks(WithWeek(<< >>, WeekKeyOf(0), initializeWeek)),
          todoPool |-> EncodePool(getInitialTodoPool)])

\* a backup with an empty pool
EmptyPoolBackup ==
    Json([allWeeks |-> EncodeWeeks(WithWeek(<< >>, WeekKeyOf(0), initializeWeek)),
          todoPool |-> << >>])

\* documents without one of the two keys
NoPoolBackup == Json([allWeeks |-> EncodeWeeks(WithWeek(<< >>, WeekKeyOf(0), initializeWeek))])

NoWeeksBackup == Json([todoPool |-> EncodePool(getInitialTodoPool)])

\* the files the user may pick, besides the one just exported
BackupFiles == {Unparsable, NullBackup, NoPoolBackup, NoWeeksBackup, EmptyPoolBackup, FreshBackup}

\* reader.onload of importData(file)
importData(file) ==
    LET data == file.value
        valid == /\ file.parses
                 /\ ~file.null
                 /\ Truthy(Property(data, "allWeeks"))
                 /\ Truthy(Property(data, "todoPool"))
    IN  /\ Count
        /\ IF valid
           THEN /\ allWeeks' = DecodeWeeks(data.allWeeks)
                /\ todoPool' = DecodePool(data.todoPool)
                /\ alertMessage' = "Data imported successfully!"
           ELSE /\ UNCHANGED <<allWeeks, todoPool>>
                /\ alertMessage' = IF file.parses /\ ~file.null
                                   THEN "Invalid data file."
                                   ELSE "Error parsing data file."
        /\ UNCHANGED <<weekOffset, isDraggingTask, draggedTaskInfo, activeDropTarget,
                       justCompletedTaskId, completionTimers, editingTaskId, editingTaskText,
                       editingTaskDuration, now, successSounds>>
        /\ Effect(valid)

----------------------------------------------------------------------------
(* Startup: what storage holds, and the constructor *)

\* the week w with one more task at the end of a slot
Put(w, day, category, todo) == [w EXCEPT ![day][category] = Append(@, todo)]

\* a task as the quick add form of a goal slot makes it
SavedGoal(id) == Todo(id, "call mum", FALSE, QuickAddDuration, TRUE, TRUE, FALSE, Null)

\* nothing saved yet
EmptyStorage == [allWeeks |-> Absent, todoPool |-> Absent]

\* a pool task as onDrop leaves it in a slot of that category
Dropped(id, category) == TodoToDrop(PoolDrag(getInitialTodoPool[id]), category)

\* saved by an earlier session: a goal task on Monday of this week and of the next, and
\* task 4 dropped on Monday/leisure of the next week
SavedGoals ==
    [allWeeks |-> Stored(WithWeek(WithWeek(<< >>, WeekKeyOf(0),
                                           Put(initializeWeek, "MONDAY", "goal", SavedGoal(11))),
                                  WeekKeyOf(1),
                                  Put(Put(initializeWeek, "MONDAY", "goal", SavedGoal(12)),
                                      "MONDAY", "leisure", Dropped(4, "leisure")))),
     todoPool |-> Stored(RemoveId(getInitialTodoPool, 4))]

\* saved by an earlier session: task 4 dropped on Monday/work and completed, tasks 3 and 2
\* dropped on Tuesday, and an instance of template 5 on Monday/basics
SavedHabit ==
    LET completed == [Dropped(4, "work") EXCEPT !.completed = TRUE]
        instance == NewInstance(Dropped(5, "basics"), 13)
        monday == Put(Put(initializeWeek, "MONDAY", "work", completed), "MONDAY", "basics", instance)
        tuesday == Put(Put(monday, "TUESDAY", "focus", Dropped(3, "focus")),
                       "TUESDAY", "leisure", Dropped(2, "leisure"))
    IN  [allWeeks |-> Stored(WithWeek(<< >>, WeekKeyOf(0), tuesday)),
         todoPool |-> Stored(RemoveId(RemoveId(RemoveId(getInitialTodoPool, 4), 3), 2))]

\* the storage contents a run may start from
Storages == {EmptyStorage, SavedGoals, SavedHabit}

\* f[k] || dflt
GetOr(f, k, dflt) == IF k \in DOMAIN f THEN f[k] ELSE dflt

\* if (!day[key]) { day[key] = day[legacy] || []; delete day[legacy] }
MigrateKey(day, key, legacy) ==
    IF key \in DOMAIN day THEN day
    ELSE [k \in (DOMAIN day \ {legacy}) \cup {key} |->
             IF k = key THEN GetOr(day, legacy, << >>) ELSE day[k]]

\* if (!day[key]) day[key] = []
EnsureKey(day, key) ==
    IF key \in DOMAIN day THEN day
    ELSE [k \in DOMAIN day \cup {key} |-> IF k = key THEN << >> ELSE day[k]]

MigrateDay(day) ==
    EnsureKey(EnsureKey(MigrateKey(MigrateKey(MigrateKey(day, "basics", "chore"),
                                              "work", "core"),
                                   "leisure", "offTime"),
                        "focus"),
              "goal")

\* the data migration of the constructor
Migrate(weeks) ==
    [k \in DOMAIN weeks |->
        [d \in DOMAIN weeks[k] |-> IF d \in Days THEN MigrateDay(weeks[k][d]) ELSE weeks[k][d]]]

\* the week collection after the constructor: loaded or {}, migrated, with the current week
ConstructWeeks(storage) ==
    LET loaded == IF storage.allWeeks.has THEN storage.allWeeks.val ELSE << >>
        migrated == Migrate(loaded)
    IN  IF WeekKeyOf(0) \in DOMAIN migrated THEN migrated
        ELSE WithWeek(migrated, WeekKeyOf(0), initializeWeek)

ConstructPool(storage) ==
    IF storage.todoPool.has THEN storage.todoPool.val ELSE getInitialTodoPool

\* the state after construction over a storage content
Startup(storage) ==
    /\ weekOffset = 0
    /\ allWeeks = ConstructWeeks(storage)
    /\ todoPool = ConstructPool(storage)
    /\ isDraggingTask = FALSE
    /\ draggedTaskInfo = NoDrag
    /\ activeDropTarget = NoTarget
    /\ justCompletedTaskId = Null
    /\ completionTimers = 0
    /\ editingTaskId = Null
    /\ editingTaskText = ""
    /\ editingTaskDuration = Num(30)
    /\ now = StartMillis
    /\ localStorage = storage
    /\ alertMessage = ""
    /\ successSounds = 0
    /\ saveStatus = "Saving..."
    /\ saveTimers = <<[weeks |-> ConstructWeeks(storage), pool |-> ConstructPool(storage)]>>
    /\ ops = 0

Init == \E storage \in Storages : Startup(storage)

\* a day saved by a version that knew the categories as core, offTime and chore
LegacyDay(core, chore) ==
    [goal |-> << >>, focus |-> << >>, core |-> core, offTime |-> << >>, chore |-> chore]

\* saved by an older version: every day in the legacy layout, Monday with task 4 in core
\* and one without the goal and focus keys on Tuesday
SavedLegacy ==
    LET monday == LegacyDay(<<Dropped(4, "work")>>, << >>)
        tuesday == [core |-> << >>, chore |-> <<Dropped(3, "basics")>>]
        w == [d \in Days |-> CASE d = "MONDAY" -> monday
                                [] d = "TUESDAY" -> tuesday
                                [] OTHER -> LegacyDay(<< >>, << >>)]
    IN  [allWeeks |-> Stored(WithWeek(<< >>, WeekKeyOf(0), w)),
         todoPool |-> Stored(RemoveId(RemoveId(getInitialTodoPool, 4), 3))]

\* saved with a week that has no SUNDAY entry
SavedPartial ==
    LET w == [d \in Days \ {"SUNDAY"} |->
                 IF d = "MONDAY" THEN Put(initializeWeek, "MONDAY", "work", Dropped(4, "work"))[d]
                 ELSE initializeDay]
    IN  [allWeeks |-> Stored(WithWeek(<< >>, WeekKeyOf(0), w)),
         todoPool |-> Stored(RemoveId(getInitialTodoPool, 4))]

\* saved with a Monday that has the five categories and, beside basics, still the legacy
\* key chore with task 3 under it
SavedMixed ==
    LET monday == [k \in Cats \cup {"chore"} |->
                      IF k = "chore" THEN <<Dropped(3, "basics")>> ELSE << >>]
        w == [d \in Days |-> IF d = "MONDAY" THEN monday ELSE initializeDay]
    IN  [allWeeks |-> Stored(WithWeek(<< >>, WeekKeyOf(0), w)),
         todoPool |-> Stored(RemoveId(getInitialTodoPool, 3))]

\* storage contents of older or damaged saves
LegacyStorages == {SavedLegacy, SavedPartial, SavedMixed}

LegacyInit == \E storage \in LegacyStorages : Startup(storage)

\* the durations of the long task of a saved Monday: a quick add on top of them reaches
\* the half, three quarters, 95 percent and the whole of the daily capacity, or passes it
LoadDurations == {210, 330, 426, 450, 470}

\* saved by an earlier session: one long task on Monday/work of this week
SavedLoad(duration) ==
    [allWeeks |-> Stored(WithWeek(<< >>, WeekKeyOf(0),
                                  Put(initializeWeek, "MONDAY", "work",
                                      [SavedGoal(11) EXCEPT !.duration = duration,
                                                            !.urgent = FALSE]))),
     todoPool |-> Stored(getInitialTodoPool)]

LoadInit == \E duration \in LoadDurations : Startup(SavedLoad(duration))

----------------------------------------------------------------------------
(* Specification *)

\* the drag sources the components offer: a sidebar task, or a task of the active week
DragSources ==
    {PoolDrag(t) : t \in SidebarTasks}
    \cup LET w == week
         IN  UNION {{WeekDrag(s[1], s[2], t, currentWeekKey) : t \in Range(w[s[1]][s[2]])} :
                       s \in UsedSlots(w)}

Next ==
    \/ Tick
    \/ \E direction \in {-1, 1} : navigateWeek(direction)
    \/ \E text \in AddTexts, duration \in AddDurations : addTodo(text, duration)
    \/ \E slot \in QuickAddSlots, text \in AddTexts :
          addTodoToDay(slot[1], slot[2], text, QuickAddDuration)
    \/ \E slot \in InputSlots, t \in allTasksInWeek :
          toggleTodoCompletion(slot[1], slot[2], t.id)
    \/ completionTimeout
    \/ \E t \in SidebarTasks \cup allTasksInWeek : startEdit(t)
    \/ \E text \in EditTexts, duration \in EditDurations : editInput(text, duration)
    \/ cancelEdit
    \/ saveEdit
    \/ \E info \in DragSources : onDragStart(info)
    \/ \E target \in HoverTargets : onDragEnter(target)
    \/ cleanupDragState
    \/ \E slot \in InputSlots : onDrop(slot[1], slot[2])
    \/ onPoolDrop
    \/ (Count /\ saveTimeout)

Spec == Init /\ [][Next]_vars

\* the handlers together with the import of a backup file: one the user kept, or the one
\* exportData has just written
BackupNext == Next \/ \E file \in BackupFiles \cup {exportData} : importData(file)

\* the program started over a save that holds tasks and a habit instance
BackupSpec == Startup(SavedHabit) /\ [][BackupNext]_vars

\* the program started with empty storage, the auto-save timer firing whenever it is due:
\* its callback is outside the budget of handler calls and is not postponed forever
SaveNext == BackupNext \/ (saveTimeout /\ UNCHANGED ops)

SaveSpec ==
    /\ Startup(EmptyStorage)
    /\ [][SaveNext]_vars
    /\ WF_vars(saveTimeout /\ UNCHANGED ops)

\* the same program started over an older or damaged save
LegacySpec == LegacyInit /\ [][Next]_vars

\* the same program started over a save with a loaded Monday
LoadSpec == LoadInit /\ [][Next]_vars

----------------------------------------------------------------------------
(* Vocabulary of the properties *)

\* every place a task can be: the pool, or a slot of a week
Places == {<<"pool">>} \cup {<<"week", k, d, c>> : k \in DOMAIN allWeeks, d \in Days, c \in Cats}

\* the tasks at a place, in order
At(weeks, pool, p) == IF p[1] = "pool" THEN pool ELSE weeks[p[2]][p[3]][p[4]]

\* every live task with where it is: <<place, index, task>>
Live == UNION {{<<p, i, At(allWeeks, todoPool, p)[i]>> : i \in 1..Len(At(allWeeks, todoPool, p))} :
                  p \in Places}

LiveIds == {x[3].id : x \in Live}

\* the step is an onDrop on some input slot
SomeOnDrop == \E slot \in InputSlots : onDrop(slot[1], slot[2])

\* C1: in every reachable state every day of every week holds at most one task in goal
C1_GoalSingleOccupancy ==
    \A k \in DOMAIN allWeeks : \A d \in Days : Len(allWeeks[k][d]["goal"]) <= 1

\* C2: in every reachable state no two live tasks (pool and all weeks) have the same id
C2_UniqueIds ==
    LET live == Live
    IN  \A x \in live : \A y \in live : x[3].id = y[3].id => (x[1] = y[1] /\ x[2] = y[2])

\* C9: after an onDrop or onPoolDrop that moved a task the coordinator is idle: not
\* dragging, no drag source, no hover target
C9_IdleAfterDrop ==
    [][((SomeOnDrop \/ onPoolDrop) /\ allWeeks' # allWeeks) =>
          (~isDraggingTask' /\ draggedTaskInfo' = NoDrag /\ activeDropTarget' = NoTarget)]_vars

\* C10: in every reachable state no pool task has sourceId set
C10_NoSourceIdInPool == \A i \in 1..Len(todoPool) : todoPool[i].sourceId = Null

\* s without its i-th element
RemoveAt(s, i) == [j \in 1..(Len(s) - 1) |-> IF j < i THEN s[j] ELSE s[j + 1]]

\* new is old with one task of this id taken out, or old itself when old holds none
MinusOne(old, new, id) ==
    IF HasId(old, id) THEN \E i \in 1..Len(old) : old[i].id = id /\ new = RemoveAt(old, i)
    ELSE new = old

Front(s) == SubSeq(s, 1, Len(s) - 1)

\* every slot of every week outside `except` is the same before and after the step
SlotsUnchangedExcept(except) ==
    /\ DOMAIN allWeeks' = DOMAIN allWeeks
    /\ \A k \in DOMAIN allWeeks : \A s \in AllSlots :
          <<k, s[1], s[2]>> \notin except => allWeeks'[k][s[1]][s[2]] = allWeeks[k][s[1]][s[2]]

\* the goal rule as the specification states it: the day's goal slot of the active week
\* holds a task other than the dragged one
GoalHoldsAnother(day) ==
    \E i \in 1..Len(week[day]["goal"]) : week[day]["goal"][i].id # draggedTaskInfo.todo.id

RejectedByGoalRule(day, category) == category = "goal" /\ GoalHoldsAnother(day)

\* what C3 says of a step that is onDrop(day, category)
C3_Step(day, category) ==
    LET data == draggedTaskInfo
        key == currentWeekKey
        before == allWeeks[key][day][category]
        after == allWeeks'[key][day][category]
    IN  (/\ onDrop(day, category)
         /\ data.source = "pool"
         /\ data.todo.habit
         /\ ~RejectedByGoalRule(day, category))
        => /\ todoPool' = todoPool
           /\ Len(after) = Len(before) + 1
           /\ Front(after) = before
           /\ after[Len(after)].sourceId = data.todo.id
           /\ after[Len(after)].id # data.todo.id
           /\ after[Len(after)].id \notin LiveIds
           /\ SlotsUnchangedExcept({<<key, day, category>>})

\* C3: dropping a habit template from the pool leaves the pool unchanged and appends one
\* instance to the destination slot, with sourceId the template's id and an id no live task
\* has; no other slot changes
C3_HabitInstantiation == [][\A slot \in InputSlots : C3_Step(slot[1], slot[2])]_vars

\* what C4 says of a step that is onDrop(day, category)
C4_Step(day, category) ==
    (/\ onDrop(day, category)
     /\ \/ draggedTaskInfo = NoDrag
        \/ (category = "goal" /\ GoalHoldsAnother(day)))
    => UNCHANGED <<allWeeks, todoPool>>

\* C4: onDrop on a goal slot that holds a task other than the dragged one, and onDrop with
\* no drag source, change neither the week collection nor the pool
C4_GoalDropRejected == [][\A slot \in InputSlots : C4_Step(slot[1], slot[2])]_vars

\* what the cross-week clause of C4 says of a step that is onDrop(day, "goal"): the drag
\* comes from the same day's goal slot of a week that is not the active one, where the task
\* still is, and no goal slot holds more than one task
C4_CrossWeekStep(day) ==
    LET data == draggedTaskInfo
    IN  (/\ onDrop(day, "goal")
         /\ data.source = "week"
         /\ data.weekKey # currentWeekKey
         /\ data.day = day
         /\ data.category = "goal"
         /\ HasId(allWeeks[data.weekKey][day]["goal"], data.todo.id)
         /\ C1_GoalSingleOccupancy
         /\ GoalHoldsAnother(day))
        => UNCHANGED <<allWeeks, todoPool>>

\* C4, the clause on a week source recorded in another week
C4_CrossWeekRejected == [][\A slot \in InputSlots : C4_CrossWeekStep(slot[1])]_vars

\* what C5 says of a step that is onDrop(day, category)
C5_Step(day, category) ==
    LET data == draggedTaskInfo
        id == data.todo.id
        key == currentWeekKey
        dest == <<key, day, category>>
        fromWeek == data.source = "week"
        src == IF fromWeek THEN <<data.weekKey, data.day, data.category>> ELSE dest
        before == allWeeks[key][day][category]
        after == allWeeks'[key][day][category]
    IN  (/\ onDrop(day, category)
         /\ data # NoDrag
         /\ ~(data.source = "pool" /\ data.todo.habit)
         /\ ~RejectedByGoalRule(day, category)
         /\ ~GoalRejected(data, day, category))
        => /\ Len(after) >= 1
           /\ after[Len(after)].id = id
           /\ ~after[Len(after)].completed
           /\ IF fromWeek /\ src = dest
              THEN ~HasId(Front(after), id) /\ MinusOne(before, Front(after), id)
              ELSE Front(after) = before
           /\ src # dest =>
                 /\ ~HasId(allWeeks'[src[1]][src[2]][src[3]], id)
                 /\ MinusOne(allWeeks[src[1]][src[2]][src[3]], allWeeks'[src[1]][src[2]][src[3]], id)
           /\ IF data.source = "pool"
              THEN ~HasId(todoPool', id) /\ MinusOne(todoPool, todoPool', id)
              ELSE todoPool' = todoPool
           /\ SlotsUnchangedExcept({src, dest})

\* C5: an accepted onDrop of an ordinary task or habit instance puts the task, not
\* completed, last in the destination slot of the active week, takes it out of its source
\* slot or of the pool, and changes no other task and no other slot
C5_OrdinaryDrop == [][\A slot \in InputSlots : C5_Step(slot[1], slot[2])]_vars

\* what C6 says of a step that is onPoolDrop
C6_Step ==
    LET data == draggedTaskInfo
        id == data.todo.id
    IN  /\ (onPoolDrop /\ (data = NoDrag \/ data.source = "pool"))
           => UNCHANGED <<allWeeks, todoPool>>
        /\ (/\ onPoolDrop
            /\ data.source = "week"
            /\ data.todo.sourceId = Null
            /\ HasId(allWeeks[data.weekKey][data.day][data.category], id))
           => /\ ~HasId(allWeeks'[data.weekKey][data.day][data.category], id)
              /\ MinusOne(allWeeks[data.weekKey][data.day][data.category],
                          allWeeks'[data.weekKey][data.day][data.category], id)
              /\ SlotsUnchangedExcept({<<data.weekKey, data.day, data.category>>})
              /\ Len(todoPool') = Len(todoPool) + 1
              /\ todoPool'[1] = [data.todo EXCEPT !.urgent = FALSE, !.important = TRUE]
              /\ Tail(todoPool') = todoPool
              /\ Cardinality({i \in 1..Len(todoPool') : todoPool'[i].id = id}) = 1

\* C6: onPoolDrop of a week task without sourceId takes it out of its origin slot and puts
\* it first in the pool with urgent false and important true; the pool then holds it once
\* and nothing else changes; onPoolDrop with a pool source or none changes nothing
C6_ReturnToPool == [][C6_Step]_vars

\* what C7 says of a step that is onPoolDrop, and of the instantiation before it
C7_Step ==
    LET data == draggedTaskInfo
        id == data.todo.id
    IN  /\ (/\ onPoolDrop
            /\ data.source = "week"
            /\ data.todo.sourceId # Null
            /\ data.weekKey \in DOMAIN allWeeks
            /\ HasId(allWeeks[data.weekKey][data.day][data.category], id))
           => /\ todoPool' = todoPool
              /\ ~HasId(allWeeks'[data.weekKey][data.day][data.category], id)
              /\ SlotsUnchangedExcept({<<data.weekKey, data.day, data.category>>})
        /\ \A slot \in InputSlots :
              (/\ onDrop(slot[1], slot[2])
               /\ data.source = "pool"
               /\ data.todo.habit)
              => todoPool' = todoPool

\* C7: onPoolDrop of a habit instance held by a week slot takes the instance out of that
\* slot and leaves the pool exactly as it was, as does the instantiation of a template, so
\* instantiating template 5 and dragging the instance back ends with the pool it began with
C7_InstanceNotReturned == [][C7_Step]_vars

\* template 5 was instantiated into MONDAY basics and the instance dragged back to the pool
C7_Witness ==
    /\ draggedTaskInfo.source = "week"
    /\ draggedTaskInfo.todo.sourceId = 5
    /\ draggedTaskInfo.todo.id >= StartMillis
    /\ draggedTaskInfo.day = "MONDAY"
    /\ draggedTaskInfo.category = "basics"
    /\ draggedTaskInfo.todo.id \notin LiveIds
    /\ todoPool = getInitialTodoPool

\* what C8 says of a step that is onDrop(day, category)
C8_Step(day, category) ==
    LET data == draggedTaskInfo
        after == allWeeks'[currentWeekKey][day][category]
        placed == after[Len(after)]
    IN  (/\ onDrop(day, category)
         /\ data # NoDrag
         /\ ~RejectedByGoalRule(day, category)
         /\ ~GoalRejected(data, day, category))
        => /\ Len(after) >= 1
           /\ IF data.source = "pool"
              THEN /\ placed.urgent = (category \in {"goal", "work"})
                   /\ placed.important = (category \in {"goal", "focus"})
              ELSE /\ placed.urgent = data.todo.urgent
                   /\ placed.important = data.todo.important

\* C8: a task dropped from the pool is placed with the flags of the category (goal both,
\* focus important only, work urgent only, leisure and basics neither), whatever flags it
\* had; a task dropped from a week slot is placed with the flags it had
C8_FlagsByCategory == [][\A slot \in InputSlots : C8_Step(slot[1], slot[2])]_vars

\* a pool task that was urgent and important sits in MONDAY focus, not urgent, important
C8_Witness ==
    /\ draggedTaskInfo.source = "pool"
    /\ draggedTaskInfo.todo.urgent
    /\ draggedTaskInfo.todo.important
    /\ ~HasId(todoPool, draggedTaskInfo.todo.id)
    /\ \E i \in 1..Len(week["MONDAY"]["focus"]) :
          LET t == week["MONDAY"]["focus"][i]
          IN  t.id = draggedTaskInfo.todo.id /\ ~t.urgent /\ t.important

\* the step is one of the operations C11 lists
C11_Operation ==
    \/ \E info \in DragSources : onDragStart(info)
    \/ \E target \in HoverTargets : onDragEnter(target)
    \/ SomeOnDrop
    \/ onPoolDrop
    \/ cleanupDragState
    \/ \E direction \in {-1, 1} : navigateWeek(direction)
    \/ \E slot \in InputSlots, t \in allTasksInWeek : toggleTodoCompletion(slot[1], slot[2], t.id)
    \/ \E text \in AddTexts, duration \in AddDurations : addTodo(text, duration)
    \/ \E slot \in QuickAddSlots, text \in AddTexts :
          addTodoToDay(slot[1], slot[2], text, QuickAddDuration)

\* C11: no drag, drop, cleanup, navigation, toggle or add step removes a habit template
\* from the pool or changes its id or habit flag
C11_TemplatesStay ==
    [][(todoPool' # todoPool /\ C11_Operation) =>
          \A i \in 1..Len(todoPool) :
              todoPool[i].habit =>
                  \E j \in 1..Len(todoPool') :
                      todoPool'[j].id = todoPool[i].id /\ todoPool'[j].habit]_vars

\* template 5 was dragged from the pool and dropped: its instance is in the active week and
\* the template is still in the pool
C11_Witness ==
    /\ draggedTaskInfo.source = "pool"
    /\ draggedTaskInfo.todo.id = 5
    /\ \E t \in allTasksInWeek : t.sourceId = 5 /\ t.id >= StartMillis
    /\ \E j \in 1..Len(todoPool) : todoPool[j].id = 5 /\ todoPool[j].habit

\* C12: in every reachable state every week holds all seven days and every day all five
\* categories, each a sequence
C12_WeeksComplete ==
    \A k \in DOMAIN allWeeks :
        /\ DOMAIN allWeeks[k] = Days
        /\ \A d \in DOMAIN allWeeks[k] :
              /\ Cats \subseteq DOMAIN allWeeks[k][d]
              /\ \A c \in Cats : DOMAIN allWeeks[k][d][c] = 1..Len(allWeeks[k][d][c])

\* how often task t occurs in sequence s
Occurrences(s, t) == Cardinality({i \in 1..Len(s) : s[i] = t})

\* C13: basicsPool is exactly the pool tasks with habit true whose id is the sourceId of no
\* task in any slot of the active week, and backlogPool is exactly the pool tasks with habit
\* false, in descending id order
C13_PoolViews ==
    LET w == week
        basics == basicsPool
        backlog == backlogPool
        instantiated(id) == \E sl \in UsedSlots(w) :
                               \E i \in 1..Len(w[sl[1]][sl[2]]) : w[sl[1]][sl[2]][i].sourceId = id
    IN  /\ Range(basics) = {t \in Range(todoPool) : t.habit /\ ~instantiated(t.id)}
        /\ \A t \in Range(basics) : Occurrences(basics, t) = Occurrences(todoPool, t)
        /\ Range(backlog) = {t \in Range(todoPool) : ~t.habit}
        /\ \A t \in Range(backlog) : Occurrences(backlog, t) = Occurrences(todoPool, t)
        /\ \A i \in 1..Len(backlog) : \A j \in i..Len(backlog) : backlog[i].id >= backlog[j].id

\* template 5 was dropped into the active week: it is in the pool and not in basicsPool,
\* while another week is without an instance, and the backlog has a task added after startup
C13_Witness ==
    /\ \E t \in allTasksInWeek : t.sourceId = 5 /\ t.id >= StartMillis
    /\ HasId(todoPool, 5)
    /\ ~HasId(basicsPool, 5)
    /\ Len(backlogPool) >= 2
    /\ backlogPool[1].id >= StartMillis

\* storage holds the week collection and the pool that are in memory
StorageIsCurrent ==
    localStorage = [allWeeks |-> Stored(allWeeks), todoPool |-> Stored(todoPool)]

\* at most one auto-save timer is pending, and it holds the current weeks and pool
C14_OneCurrentTimer ==
    /\ Len(saveTimers) <= 1
    /\ \A i \in 1..Len(saveTimers) :
          saveTimers[i].weeks = allWeeks /\ saveTimers[i].pool = todoPool

\* C14: at most one auto-save timer is pending at any time and it holds the current week
\* collection and pool; every write to storage stores both, as they are in memory when
\* the timer fires
C14_WritesLatestState ==
    /\ C14_OneCurrentTimer
    /\ [][/\ C14_OneCurrentTimer'
          /\ localStorage' # localStorage => (StorageIsCurrent' /\ UNCHANGED <<allWeeks, todoPool>>)]_vars

\* a task was added to the pool and the timer wrote the pool that holds it
C14_Witness ==
    /\ HasId(todoPool, StartMillis)
    /\ localStorage.todoPool.has
    /\ HasId(localStorage.todoPool.val, StartMillis)
    /\ saveTimers = << >>

\* C15: every change of the week collection or the pool sets the status to 'Saving...';
\* the status is 'All changes saved' only while storage holds the week collection and pool
\* in memory; and from 'Saving...' the timer eventually fires, leaving the status
\* 'All changes saved' and storage equal to memory
C15_SaveStatus ==
    /\ [][(allWeeks' # allWeeks \/ todoPool' # todoPool) => saveStatus' = "Saving..."]_vars
    /\ [](saveStatus = "All changes saved" => StorageIsCurrent)
    /\ (saveStatus = "Saving...") ~> (saveStatus = "All changes saved" /\ StorageIsCurrent)

\* a task was quick-added to the week, and the status is 'All changes saved' with the
\* week in storage
C15_Witness ==
    /\ \E t \in allTasksInWeek : t.id >= StartMillis /\ t.sourceId = Null
    /\ saveStatus = "All changes saved"
    /\ StorageIsCurrent

\* what C16 says of a step that is the import of a file
C16_Step ==
    /\ \A file \in {Unparsable, NullBackup, NoPoolBackup, NoWeeksBackup} :
          importData(file) =>
              /\ UNCHANGED <<allWeeks, todoPool>>
              /\ alertMessage' \in {"Invalid data file.", "Error parsing data file."}
    /\ importData(FreshBackup) =>
          /\ allWeeks' = WithWeek(<< >>, WeekKeyOf(0), initializeWeek)
          /\ todoPool' = getInitialTodoPool
    /\ importData(EmptyPoolBackup) =>
          /\ allWeeks' = WithWeek(<< >>, WeekKeyOf(0), initializeWeek)
          /\ todoPool' = << >>
    /\ importData(exportData) =>
          /\ UNCHANGED <<allWeeks, todoPool>>
          /\ alertMessage' = "Data imported successfully!"

\* C16: importing a file that does not parse or lacks allWeeks or todoPool shows an error
\* and changes neither the week collection nor the pool; importing a document with both
\* replaces both by the document's values, and importing what exportData wrote leaves both
\* as they were
C16_ImportBackup == [][C16_Step]_vars

\* the export of a week with a habit instance and an ordinary task was imported
C16_Witness ==
    /\ alertMessage = "Data imported successfully!"
    /\ \E t \in allTasksInWeek : t.sourceId = 5
    /\ \E t \in allTasksInWeek : t.sourceId = Null
    /\ Len(todoPool) > 0

\* task new is task old with the text and duration of the edit draft
C17_Edited(old, new) ==
    /\ new = [old EXCEPT !.text = new.text, !.duration = new.duration]
    /\ new.text = editingTaskText
    /\ CASE editingTaskDuration = Str("45") -> new.duration = 45
         [] editingTaskDuration = Str("abc") -> new.duration = 0
         [] editingTaskDuration.kind = "number" -> new.duration = editingTaskDuration.val
         [] OTHER -> new.duration \in Int

\* sequence new is sequence old where tasks with this id may have been edited
C17_SeqEdited(old, new, id) ==
    /\ Len(new) = Len(old)
    /\ \A i \in 1..Len(old) :
          new[i] = old[i] \/ (old[i].id = id /\ C17_Edited(old[i], new[i]))

\* what C17 says of a step that is saveEdit or cancelEdit
C17_Step ==
    LET id == editingTaskId
        key == currentWeekKey
        inWeek == \E t \in allTasksInWeek : t.id = id
    IN  /\ (saveEdit /\ id # Null) =>
              /\ editingTaskId' = Null
              /\ DOMAIN allWeeks' = DOMAIN allWeeks
              /\ \A k \in DOMAIN allWeeks \ {key} : allWeeks'[k] = allWeeks[k]
              /\ IF inWeek
                 THEN /\ todoPool' = todoPool
                      /\ \A sl \in AllSlots :
                            C17_SeqEdited(allWeeks[key][sl[1]][sl[2]],
                                          allWeeks'[key][sl[1]][sl[2]], id)
                      /\ \E sl \in AllSlots :
                            \E i \in 1..Len(allWeeks[key][sl[1]][sl[2]]) :
                                /\ allWeeks[key][sl[1]][sl[2]][i].id = id
                                /\ C17_Edited(allWeeks[key][sl[1]][sl[2]][i],
                                              allWeeks'[key][sl[1]][sl[2]][i])
                 ELSE /\ allWeeks' = allWeeks
                      /\ C17_SeqEdited(todoPool, todoPool', id)
                      /\ \A i \in 1..Len(todoPool) :
                            todoPool[i].id = id => C17_Edited(todoPool[i], todoPool'[i])
        /\ (saveEdit /\ id = Null) => UNCHANGED <<allWeeks, todoPool, editingTaskId>>
        /\ cancelEdit => (UNCHANGED <<allWeeks, todoPool>> /\ editingTaskId' = Null)

\* C17: saveEdit changes only the text and duration of the task with the edited id: in the
\* active week when it is there (pool unchanged), else in the pool (weeks unchanged), and
\* nothing when it is in neither; cancelEdit changes no task; after both no edit is open
C17_EditCommit == [][C17_Step]_vars

\* an edit of a task of the active week was committed with a new text
C17_Witness ==
    /\ editingTaskId = Null
    /\ editingTaskText = "edited"
    /\ \E t \in allTasksInWeek : t.text = "edited"

\* what C18 says of a step that is toggleTodoCompletion(day, category, id)
C18_Toggled(day, category, id) ==
    LET key == currentWeekKey
        old == allWeeks[key][day][category]
        new == allWeeks'[key][day][category]
    IN  /\ todoPool' = todoPool
        /\ DOMAIN allWeeks' = DOMAIN allWeeks
        /\ \A k \in DOMAIN allWeeks \ {key} : allWeeks'[k] = allWeeks[k]
        /\ \A sl \in AllSlots \ {<<day, category>>} :
              allWeeks'[key][sl[1]][sl[2]] = allWeeks[key][sl[1]][sl[2]]
        /\ Len(new) = Len(old)
        /\ IF \E i \in 1..Len(old) : old[i].id = id
           THEN \E i \in 1..Len(old) :
                   /\ old[i].id = id
                   /\ new[i] = [old[i] EXCEPT !.completed = ~old[i].completed]
                   /\ \A j \in 1..Len(old) \ {i} : new[j] = old[j]
                   /\ IF new[i].completed
                      THEN /\ successSounds' = successSounds + 1
                           /\ justCompletedTaskId' = id
                      ELSE UNCHANGED <<successSounds, justCompletedTaskId>>
           ELSE /\ new = old
                /\ UNCHANGED <<successSounds, justCompletedTaskId>>

C18_Step ==
    (/\ UNCHANGED <<weekOffset, now, editingTaskId, editingTaskText, draggedTaskInfo,
                    activeDropTarget, todoPool>>
     /\ ops' = ops + 1
     /\ saveStatus' = "Saving...") =>
        \A slot \in InputSlots, t \in allTasksInWeek :
            toggleTodoCompletion(slot[1], slot[2], t.id) => C18_Toggled(slot[1], slot[2], t.id)

\* C18: toggleTodoCompletion(day, category, id) flips completed on the task with that id in
\* that slot of the active week and changes no other task, slot, week or the pool, nothing
\* at all when the slot has no such task; the success sound is played and
\* justCompletedTaskId set to id exactly when the task ends up completed
C18_ToggleCompletion == [][C18_Step]_vars

\* a task was completed: the sound was played and the marker names the task
C18_Witness ==
    /\ successSounds > 0
    /\ \E t \in allTasksInWeek : t.id = justCompletedTaskId /\ t.completed

\* C19: in every reachable state the duration of every task, of every week and of the pool,
\* is a non-negative integer
C19_DurationsNatural ==
    /\ \A i \in 1..Len(todoPool) : todoPool[i].duration \in Nat
    /\ \A k \in DOMAIN allWeeks : \A sl \in UsedSlots(allWeeks[k]) :
          \A i \in 1..Len(allWeeks[k][sl[1]][sl[2]]) :
              allWeeks[k][sl[1]][sl[2]][i].duration \in Nat

\* the sum of the durations of the first n tasks of s
RECURSIVE C20_Sum(_, _)
C20_Sum(s, n) == IF n = 0 THEN 0 ELSE C20_Sum(s, n - 1) + s[n].duration

\* the minutes of a day of the active week: goal, focus, work, leisure and basics together
C20_Total(day) ==
    LET slot(c) == allWeeks[currentWeekKey][day][c]
    IN  C20_Sum(slot("goal"), Len(slot("goal"))) + C20_Sum(slot("focus"), Len(slot("focus")))
        + C20_Sum(slot("work"), Len(slot("work"))) + C20_Sum(slot("leisure"), Len(slot("leisure")))
        + C20_Sum(slot("basics"), Len(slot("basics")))

\* C20: for every day of the active week dailyLoad has the sum of the durations of the day's
\* tasks as total, min(total/480*100, 100) as percentage, and the colour red from 95 percent,
\* orange from 75, yellow from 50 and green below; 480 minutes or more give exactly 100 and
\* red, 0 minutes give 0 and green
C20_DailyLoad ==
    LET load == dailyLoad
    IN  \A day \in Days :
            LET total == C20_Total(day)
                p == load[day].percentage
                wanted == IF total * 100 < 48000 THEN total * 100 ELSE 48000
            IN  /\ load[day].total = total
                /\ p.den > 0
                /\ p.num * 480 = wanted * p.den
                /\ load[day].color = CASE total * 100 >= 95 * 480 -> "#ef4444"
                                        [] total * 100 >= 75 * 480 -> "#f97316"
                                        [] total * 100 >= 50 * 480 -> "#eab308"
                                        [] OTHER -> "#22c55e"
                /\ total >= 480 => (p.num = 100 * p.den /\ load[day].color = "#ef4444")
                /\ total = 0 => (p.num = 0 /\ load[day].color = "#22c55e")

\* a quick add has brought Monday to exactly 95 percent of the capacity
C20_Witness ==
    /\ ops > 0
    /\ dailyLoad["MONDAY"].total = 456
    /\ dailyLoad["MONDAY"].color = "#ef4444"
    /\ Len(allWeeks[currentWeekKey]["MONDAY"]["work"]) = 2

\* the task with this id is in slot day/category of week key of weeks
C21_InSlot(weeks, key, day, category, id) ==
    key \in DOMAIN weeks /\ HasId(weeks[key][day][category], id)

\* in the weeks and pool an observer holds, the task dragged by data is in the grid slot it
\* was dropped on and no longer in its source (unless the source is that slot)
C21_OnGrid(weeks, pool, data, key, day, category) ==
    /\ C21_InSlot(weeks, key, day, category, data.todo.id)
    /\ IF data.source = "pool"
       THEN ~HasId(pool, data.todo.id)
       ELSE \/ <<data.weekKey, data.day, data.category>> = <<key, day, category>>
            \/ ~C21_InSlot(weeks, data.weekKey, data.day, data.category, data.todo.id)

\* in the weeks and pool an observer holds, the task dragged by data is in the pool and no
\* longer in its source slot
C21_InPool(weeks, pool, data) ==
    /\ HasId(pool, data.todo.id)
    /\ ~C21_InSlot(weeks, data.weekKey, data.day, data.category, data.todo.id)

\* what C21 says of a step: after a transfer of an ordinary task the new state and the
\* snapshot the auto-save timer holds show the task moved, and a write to storage stores
\* the weeks and pool of one published state
C21_Step ==
    LET data == draggedTaskInfo
        key == currentWeekKey
        ordinary == data # NoDrag /\ ~data.todo.habit /\ data.todo.sourceId = Null
        transfer == (allWeeks' # allWeeks \/ todoPool' # todoPool) /\ ordinary
    IN  /\ transfer =>
              \A slot \in InputSlots :
                  onDrop(slot[1], slot[2]) =>
                      /\ C21_OnGrid(allWeeks', todoPool', data, key, slot[1], slot[2])
                      /\ saveTimers' # << >>
                      /\ \A i \in 1..Len(saveTimers') :
                            C21_OnGrid(saveTimers'[i].weeks, saveTimers'[i].pool,
                                       data, key, slot[1], slot[2])
        /\ (transfer /\ onPoolDrop) =>
              /\ C21_InPool(allWeeks', todoPool', data)
              /\ saveTimers' # << >>
              /\ \A i \in 1..Len(saveTimers') :
                    C21_InPool(saveTimers'[i].weeks, saveTimers'[i].pool, data)
        /\ localStorage' # localStorage =>
              /\ UNCHANGED <<allWeeks, todoPool>>
              /\ localStorage'.allWeeks = Stored(allWeeks)
              /\ localStorage'.todoPool = Stored(todoPool)

\* C21: no observer sees a half-applied transfer: after onDrop or onPoolDrop of an ordinary
\* task, the published week collection and pool, and every snapshot the auto-save timer
\* holds or writes, have the task in its destination and not in its source
C21_NoHalfTransfer == [][C21_Step]_vars

\* an ordinary pool task was dropped on the grid: it is in the active week and not in the
\* pool, and the pending auto-save timer holds that state
C21_Witness ==
    /\ draggedTaskInfo # NoDrag
    /\ draggedTaskInfo.source = "pool"
    /\ ~draggedTaskInfo.todo.habit
    /\ ~HasId(todoPool, draggedTaskInfo.todo.id)
    /\ \E t \in allTasksInWeek : t.id = draggedTaskInfo.todo.id
    /\ saveTimers # << >>
    /\ saveTimers[Len(saveTimers)].pool = todoPool

\* C22: in every reachable state the key of the active week is a key of the week collection
C22_ActiveWeekExists == currentWeekKey \in DOMAIN allWeeks

\* C23: the marker of a completed task is cleared only by the timer its own toggle started:
\* timers fire in the order they were started, so when a timer clears a marker it must be
\* the only one pending, the one of the latest completion
C23_MarkerKeptForDelay ==
    [][(completionTimeout /\ justCompletedTaskId # Null) => completionTimers = 1]_vars

\* the category names of older versions
C24_LegacyKeys == {"chore", "core", "offTime"}

\* C24: after the startup migration no day of any week has a legacy key (chore, core,
\* offTime): what was under it is under basics, work or leisure
C24_NoLegacyKeys ==
    \A k \in DOMAIN allWeeks : \A d \in DOMAIN allWeeks[k] :
        DOMAIN allWeeks[k][d] \cap C24_LegacyKeys = {}

====
